---- MODULE Spec2Model ----
(***************************************************************************)
(* Model of lib-common's object helpers (package object):                  *)
(*   IsOwnerServiceReady, CheckOwnerRefExist, PatchOwnerRef, EnsureOwnerRef *)
(* of its deprecated-field validators (package webhook) and of the         *)
(* ClusterRole reconciler (package clusterrole).                           *)
(* The Kubernetes client and controller-runtime's SetOwnerReference are    *)
(* collaborators; they are modelled by what the calls in the source rely   *)
(* on (see the comment at each definition).                                *)
(***************************************************************************)
EXTENDS Integers, Sequences, FiniteSets, TLC

VARIABLES
    obj,        \* the child object handed to IsOwnerServiceReady
    cluster,    \* owner objects the client can fetch: a set of documents
    verdict,    \* outcome of the latest IsOwnerServiceReady call
    stored,     \* the EnsureOwnerRef target as the API server holds it (set, 0 or 1)
    mem,        \* the in-memory target object each worker passes to EnsureOwnerRef
    last,       \* per worker: outcome of its latest EnsureOwnerRef call
    hook,       \* the latest call of a pure function: its arguments and result
    r,          \* the ClusterRole reconciler: desired clusterrole and timeout
    h,          \* the helper's before-object, owner of what CreateOrPatch writes
    apiRoles,   \* ClusterRoles the API server holds (set, 0 or 1)
    crResult    \* outcome of the latest ClusterRole call

vars == <<obj, cluster, verdict, stored, mem, last, hook, r, h, apiRoles, crResult>>

readyVars == <<obj, cluster, verdict>>
ownerRefVars == <<stored, mem, last>>
hookVars == <<hook>>
roleVars == <<r, h, apiRoles, crResult>>

\* Values of the variables a model does not use.
IdleHook == [fn |-> "none"]
IdleR == <<>>
IdleH == <<>>
IdleApiRoles == {}
IdleCrResult == <<>>

(***************************************************************************)
(* Bounds of the model                                                     *)
(***************************************************************************)
MaxRefs == 2      \* longest owner-reference list of the child object
MaxConds == 2     \* longest status.conditions list of an owner
MaxGen == 2       \* largest metadata.generation / status.observedGeneration
MaxTargetRefs == 2  \* longest owner-reference list the target starts with
MaxCalls == 3     \* EnsureOwnerRef calls in one behaviour, over all workers

(***************************************************************************)
(* Data                                                                    *)
(***************************************************************************)
Namespaces == {"ns1", "ns2"}

\* apiVersion strings as token sequences; "/" is the separator character.
CoreV1 == <<"v1">>
AppsV1 == <<"apps", "/", "v1">>
BadVersion == <<"a", "/", "b", "/", "c">>

\* *bool of metav1.OwnerReference.Controller
NilBool == "nil"
TrueBool == "true"
FalseBool == "false"

OwnerReference(apiVersion, name, uid, controller) ==
    [apiVersion |-> apiVersion, kind |-> "Kind", name |-> name,
     uid |-> uid, controller |-> controller]

\* A weakly typed integer field of an unstructured document.
AbsentField == [kind |-> "absent", val |-> 0]
OtherField == [kind |-> "other", val |-> 0]
IntField(n) == [kind |-> "int", val |-> n]
IntFields == {AbsentField, OtherField} \cup {IntField(n) : n \in 1..MaxGen}

\* One entry of status.conditions: a map with string type/status, or not a map.
Condition(t, s) == [isMap |-> TRUE, type |-> t, status |-> s]
NonMapEntry == [isMap |-> FALSE, type |-> "", status |-> ""]
ConditionEntries ==
    {Condition("Ready", "True"), Condition("Ready", "False"),
     Condition("Other", "True"), NonMapEntry}

SeqsUpTo(S, n) == UNION {[1..k -> S] : k \in 0..n}

\* status.conditions: absent, present but not a list, or a list.
AbsentList == [kind |-> "absent", items |-> <<>>]
OtherList == [kind |-> "other", items |-> <<>>]
ListField(items) == [kind |-> "list", items |-> items]
ConditionFields ==
    {AbsentList, OtherList} \cup {ListField(s) : s \in SeqsUpTo(ConditionEntries, MaxConds)}

\* The owner object of the model lives at ns1/a.
OwnerDocs ==
    [namespace : {"ns1"}, name : {"a"}, generation : IntFields,
     observedGeneration : IntFields, conditions : ConditionFields]

NoDoc ==
    [namespace |-> "", name |-> "", generation |-> AbsentField,
     observedGeneration |-> AbsentField, conditions |-> AbsentList]

\* Owner references of the child object in the readiness model.
ChildRefs ==
    {OwnerReference(CoreV1, "a", "u1", NilBool),
     OwnerReference(AppsV1, "a", "u1", FalseBool),
     OwnerReference(AppsV1, "a", "u1", TrueBool),
     OwnerReference(BadVersion, "a", "u1", TrueBool)}

ChildObjects ==
    [namespace : Namespaces, ownerReferences : SeqsUpTo(ChildRefs, MaxRefs)]

(***************************************************************************)
(* IsOwnerServiceReady                                                     *)
(***************************************************************************)
\* schema.ParseGroupVersion: empty or "/" is the empty GroupVersion; no "/"
\* is a bare version; one "/" splits group and version; more is an error.
RECURSIVE CountSlash(_)
CountSlash(gv) ==
    IF gv = <<>> THEN 0
    ELSE (IF Head(gv) = "/" THEN 1 ELSE 0) + CountSlash(Tail(gv))

IndexSlash(gv) == CHOOSE i \in 1..Len(gv) : gv[i] = "/" /\ \A j \in 1..(i - 1) : gv[j] # "/"

ParseGroupVersion(gv) ==
    IF Len(gv) = 0 \/ gv = <<"/">>
    THEN [group |-> <<>>, version |-> <<>>, err |-> FALSE]
    ELSE IF CountSlash(gv) = 0
    THEN [group |-> <<>>, version |-> gv, err |-> FALSE]
    ELSE IF CountSlash(gv) = 1
    THEN [group |-> SubSeq(gv, 1, IndexSlash(gv) - 1),
          version |-> SubSeq(gv, IndexSlash(gv) + 1, Len(gv)), err |-> FALSE]
    ELSE [group |-> <<>>, version |-> <<>>, err |-> TRUE]

\* owner.Controller != nil && *owner.Controller
IsControllerMissingDeref(ref) == ref.controller # NilBool
IsController(ref) == ref.controller # NilBool /\ ref.controller = TrueBool

\* The loop over obj.GetOwnerReferences(): index of the first controller
\* owner reference, 0 when there is none (ownerRef == nil).
RECURSIVE FindControllerFrom(_, _)
FindControllerFrom(refs, i) ==
    IF i > Len(refs) THEN 0
    ELSE IF IsController(refs[i]) THEN i
    ELSE FindControllerFrom(refs, i + 1)

FindControllerOwner(refs) == FindControllerFrom(refs, 1)

\* types.NamespacedName{Name: ownerRef.Name, Namespace: obj.GetNamespace()}
OwnerKeyFixedNamespace(o, ownerRef) == [namespace |-> "ns1", name |-> ownerRef.name]
OwnerKey(o, ownerRef) == [namespace |-> o.namespace, name |-> ownerRef.name]

\* h.GetClient().Get: an injected fault is any failure other than not-found.
ClientGet(objs, fault, key) ==
    IF fault THEN [kind |-> "error", doc |-> NoDoc]
    ELSE IF \E d \in objs : d.namespace = key.namespace /\ d.name = key.name
    THEN [kind |-> "found",
          doc |-> CHOOSE d \in objs : d.namespace = key.namespace /\ d.name = key.name]
    ELSE [kind |-> "notfound", doc |-> NoDoc]

\* unstructured.NestedSlice / NestedInt64 / NestedString: (value, found, err)
NestedSlice(f) ==
    [val |-> f.items, found |-> f.kind = "list", err |-> f.kind = "other"]

NestedInt64(f) ==
    [val |-> f.val, found |-> f.kind = "int", err |-> f.kind = "other"]

\* condType == "Ready" && status == "True"
IsReadyTrueTypeOnly(condType, status) == condType = "Ready"
IsReadyTrue(condType, status) == condType = "Ready" /\ status = "True"

\* The loop over conditions: entries that are not maps are skipped.
ScanConditionsFirstOnly(conditions, i) ==
    /\ i <= Len(conditions)
    /\ conditions[i].isMap
    /\ IsReadyTrue(conditions[i].type, conditions[i].status)
RECURSIVE ScanConditions(_, _)
ScanConditions(conditions, i) ==
    IF i > Len(conditions) THEN FALSE
    ELSE IF ~conditions[i].isMap THEN ScanConditions(conditions, i + 1)
    ELSE IF IsReadyTrue(conditions[i].type, conditions[i].status) THEN TRUE
    ELSE ScanConditions(conditions, i + 1)

\* observedGeneration != generation
GenerationMismatchOnlyBehind(observedGeneration, generation) == observedGeneration < generation
GenerationMismatchOnlyAhead(observedGeneration, generation) == observedGeneration > generation
GenerationMismatch(observedGeneration, generation) == observedGeneration # generation

\* (bool, error): err is "nil", "parse" (ParseGroupVersion) or "get" (client.Get)
Result(ready, err) == [ready |-> ready, err |-> err]
NoVerdict == [called |-> FALSE, fault |-> FALSE, ready |-> FALSE, err |-> "nil"]

\* Lines 274-326: the readiness predicate on the fetched owner.
OwnerReadinessIgnoreConditions(owner) ==
    LET generation == NestedInt64(owner.generation)
        observedGeneration == NestedInt64(owner.observedGeneration)
    IN  IF generation.err \/ ~generation.found THEN Result(FALSE, "nil")
        ELSE IF observedGeneration.err \/ ~observedGeneration.found
        THEN Result(FALSE, "nil")
        ELSE IF GenerationMismatch(observedGeneration.val, generation.val)
        THEN Result(FALSE, "nil")
        ELSE Result(TRUE, "nil")

OwnerReadiness(owner) ==
    LET conditions == NestedSlice(owner.conditions)
        generation == NestedInt64(owner.generation)
        observedGeneration == NestedInt64(owner.observedGeneration)
    IN  IF conditions.err \/ ~conditions.found THEN Result(FALSE, "nil")
        ELSE IF ~ScanConditions(conditions.val, 1) THEN Result(FALSE, "nil")
        ELSE IF generation.err \/ ~generation.found THEN Result(FALSE, "nil")
        ELSE IF observedGeneration.err \/ ~observedGeneration.found
        THEN Result(FALSE, "nil")
        ELSE IF GenerationMismatch(observedGeneration.val, generation.val)
        THEN Result(FALSE, "nil")
        ELSE Result(TRUE, "nil")

\* Lines 263-272: the outcome of a failed fetch.
FetchFailedNotFoundWaits(got) ==
    IF got.kind = "notfound" THEN Result(FALSE, "nil")
    ELSE Result(FALSE, "get")
FetchFailedSwallowed(got) == Result(TRUE, "nil")
FetchFailed(got) ==
    IF got.kind = "notfound" THEN Result(TRUE, "nil")
    ELSE Result(FALSE, "get")

IsOwnerServiceReady(objs, fault, o) ==
    LET idx == FindControllerOwner(o.ownerReferences)
    IN  IF idx = 0 THEN Result(TRUE, "nil")
        ELSE LET ownerRef == o.ownerReferences[idx]
                 gv == ParseGroupVersion(ownerRef.apiVersion)
             IN  IF gv.err THEN Result(FALSE, "parse")
                 ELSE LET got == ClientGet(objs, fault, OwnerKey(o, ownerRef))
                      IN  IF got.kind # "found" THEN FetchFailed(got)
                          ELSE OwnerReadiness(got.doc)

(***************************************************************************)
(* Readiness model: a child object, the cluster holding at most its owner, *)
(* and calls of IsOwnerServiceReady.                                       *)
(***************************************************************************)
\* State of the owner-reference model while the readiness model runs.
IdleStored == {}
IdleMem == <<>>
IdleLast == <<>>

InitReady ==
    /\ obj \in ChildObjects
    /\ cluster \in {{}} \cup {{d} : d \in OwnerDocs}
    /\ verdict = NoVerdict
    /\ stored = IdleStored
    /\ mem = IdleMem
    /\ last = IdleLast
    /\ hook = IdleHook
    /\ r = IdleR
    /\ h = IdleH
    /\ apiRoles = IdleApiRoles
    /\ crResult = IdleCrResult

\* One call of IsOwnerServiceReady(ctx, h, obj); the client may fail the Get.
CallIsOwnerServiceReady ==
    /\ \E fault \in BOOLEAN :
        LET res == IsOwnerServiceReady(cluster, fault, obj)
        IN  verdict' = [called |-> TRUE, fault |-> fault,
                        ready |-> res.ready, err |-> res.err]
    /\ UNCHANGED <<obj, cluster>>
    /\ UNCHANGED <<ownerRefVars, hookVars, roleVars>>

\* The owner's spec is updated: the API server increments metadata.generation.
OwnerSpecChange ==
    /\ \E d \in cluster :
        /\ d.generation.kind = "int"
        /\ d.generation.val < MaxGen
        /\ cluster' = {[d EXCEPT !.generation = IntField(d.generation.val + 1)]}
    /\ verdict' = NoVerdict
    /\ UNCHANGED obj
    /\ UNCHANGED <<ownerRefVars, hookVars, roleVars>>

\* The owner's controller reconciles: status.observedGeneration catches up
\* with metadata.generation and the Ready condition is set to True.
OwnerStatusUpdate ==
    /\ \E d \in cluster :
        /\ d.generation.kind = "int"
        /\ cluster' = {[d EXCEPT !.observedGeneration = d.generation,
                                 !.conditions = ListField(<<Condition("Ready", "True")>>)]}
        /\ cluster' # cluster
    /\ verdict' = NoVerdict
    /\ UNCHANGED obj
    /\ UNCHANGED <<ownerRefVars, hookVars, roleVars>>

NextReady ==
    \/ CallIsOwnerServiceReady
    \/ OwnerSpecChange
    \/ OwnerStatusUpdate

SpecReady == InitReady /\ [][NextReady]_vars

(***************************************************************************)
(* Properties of IsOwnerServiceReady, stated on the inputs of the call:    *)
(* the child object, the cluster content and whether the client failed.    *)
(***************************************************************************)
HasControllerOwner == \E i \in DOMAIN obj.ownerReferences : obj.ownerReferences[i].controller = TrueBool

ControllerRef ==
    obj.ownerReferences[CHOOSE i \in DOMAIN obj.ownerReferences :
        /\ obj.ownerReferences[i].controller = TrueBool
        /\ \A j \in 1..(i - 1) : obj.ownerReferences[j].controller # TrueBool]

WellFormedVersion(v) == Cardinality({i \in DOMAIN v : v[i] = "/"}) <= 1

\* The call reached the client: there is a controller owner with a parsable apiVersion.
Fetches == verdict.called /\ HasControllerOwner /\ WellFormedVersion(ControllerRef.apiVersion)

OwnersAtKey == {d \in cluster : d.namespace = obj.namespace /\ d.name = ControllerRef.name}

OwnerFetched == Fetches /\ ~verdict.fault /\ OwnersAtKey # {}
OwnerNotFound == Fetches /\ ~verdict.fault /\ OwnersAtKey = {}
FetchErrored == Fetches /\ verdict.fault
TheOwner == CHOOSE d \in OwnersAtKey : TRUE

HasReadyTrueCondition(d) ==
    /\ d.conditions.kind = "list"
    /\ \E i \in DOMAIN d.conditions.items :
        /\ d.conditions.items[i].isMap
        /\ d.conditions.items[i].type = "Ready"
        /\ d.conditions.items[i].status = "True"

GenerationObserved(d) ==
    /\ d.generation.kind = "int"
    /\ d.observedGeneration.kind = "int"
    /\ d.observedGeneration.val = d.generation.val

ReturnsTrueNil == verdict.ready /\ verdict.err = "nil"
ReturnsFalseNil == ~verdict.ready /\ verdict.err = "nil"

\* C1: an object with no owner reference marked controller == true (empty
\* list, non-controller owners, controller unset) gets (true, nil).
C1_NoControllerOwnerIsReady ==
    (verdict.called /\ ~HasControllerOwner) => ReturnsTrueNil

C1_Witness ==
    /\ verdict.called
    /\ ~HasControllerOwner
    /\ Len(obj.ownerReferences) = 2
    /\ obj.ownerReferences[1].controller = FalseBool
    /\ obj.ownerReferences[2].controller = NilBool
    /\ \E d \in cluster : d.namespace = obj.namespace /\ ~HasReadyTrueCondition(d)
    /\ ReturnsTrueNil

\* C2: a fetched owner with a Ready=True condition whose observedGeneration
\* is absent or differs from metadata.generation gets (false, nil).
C2_StaleGenerationNotReady ==
    (OwnerFetched /\ HasReadyTrueCondition(TheOwner)
       /\ (TheOwner.observedGeneration.kind # "int"
           \/ TheOwner.generation.kind # "int"
           \/ TheOwner.observedGeneration.val # TheOwner.generation.val))
    => ReturnsFalseNil

C2_Witness ==
    /\ OwnerFetched
    /\ HasReadyTrueCondition(TheOwner)
    /\ TheOwner.generation = IntField(1)
    /\ TheOwner.observedGeneration = IntField(2)
    /\ ReturnsFalseNil

\* C3: a fetched owner with a Ready=True condition and observedGeneration
\* present and equal to metadata.generation gets (true, nil).
C3_ReadyAndObservedIsReady ==
    (OwnerFetched /\ HasReadyTrueCondition(TheOwner) /\ GenerationObserved(TheOwner))
    => ReturnsTrueNil

C3_Witness ==
    /\ OwnerFetched
    /\ TheOwner.conditions.kind = "list"
    /\ Len(TheOwner.conditions.items) = 2
    /\ TheOwner.conditions.items[1] = Condition("Other", "True")
    /\ TheOwner.conditions.items[2] = Condition("Ready", "True")
    /\ GenerationObserved(TheOwner)
    /\ TheOwner.generation.val = 2
    /\ ReturnsTrueNil

\* C4: when the controller owner is not found under the child's namespace
\* and the owner reference's name, the result is (true, nil).
C4_DeletedOwnerIsReady == OwnerNotFound => ReturnsTrueNil

C4_Witness ==
    /\ OwnerNotFound
    /\ obj.namespace = "ns2"
    /\ \E d \in cluster : d.namespace = "ns1" /\ ~HasReadyTrueCondition(d)
    /\ ReturnsTrueNil

\* C5: a fetched owner whose status.conditions is absent or not a readable
\* list gets (false, nil), whatever its generation fields are.
C5_NoConditionsNotReady ==
    (OwnerFetched /\ TheOwner.conditions.kind # "list") => ReturnsFalseNil

C5_Witness ==
    /\ OwnerFetched
    /\ TheOwner.conditions.kind = "absent"
    /\ GenerationObserved(TheOwner)
    /\ ReturnsFalseNil

\* C6: a fetched owner whose conditions list has no entry with type "Ready"
\* and status "True" gets (false, nil), even when observedGeneration equals
\* generation.
C6_NoReadyTrueNotReady ==
    (OwnerFetched /\ TheOwner.conditions.kind = "list" /\ ~HasReadyTrueCondition(TheOwner))
    => ReturnsFalseNil

C6_Witness ==
    /\ OwnerFetched
    /\ TheOwner.conditions = ListField(<<Condition("Ready", "False")>>)
    /\ GenerationObserved(TheOwner)
    /\ ReturnsFalseNil

\* C7: the error is non-nil exactly when the controller owner reference's
\* apiVersion fails to parse or the fetch fails with something other than
\* not-found; then ready is false; in every other outcome the error is nil.
C7_ErrorOnlyForUnexpectedFailures ==
    verdict.called =>
        /\ (verdict.err # "nil") <=>
              \/ (HasControllerOwner /\ ~WellFormedVersion(ControllerRef.apiVersion))
              \/ FetchErrored
        /\ (verdict.err # "nil") => ~verdict.ready

C7_Witness ==
    /\ FetchErrored
    /\ OwnersAtKey # {}
    /\ HasReadyTrueCondition(TheOwner)
    /\ GenerationObserved(TheOwner)
    /\ ~verdict.ready
    /\ verdict.err = "get"

(***************************************************************************)
(* Owner-reference operations                                              *)
(***************************************************************************)
Workers == {"w1", "w2"}

\* Owner objects handed to EnsureOwnerRef. A UID names one incarnation of an
\* object: a1 and a2 are the object "a" before and after it was re-created.
Owner(name, uid, namespace) ==
    [apiVersion |-> CoreV1, kind |-> "Kind", name |-> name, uid |-> uid,
     namespace |-> namespace]

Owners ==
    {Owner("a", "u1", "ns1"), Owner("a", "u2", "ns1"),
     Owner("b", "u3", "ns1"), Owner("c", "u4", "ns2")}

TargetNamespace == "ns1"

Object(refs) == [namespace |-> TargetNamespace, ownerReferences |-> refs]

\* slices.IndexFunc(ownerRefs, f) with f(o) = (o.UID == uid): the 0-based
\* index of the first match, -1 when there is none.
RECURSIVE IndexFuncFrom(_, _, _)
IndexFuncFrom(ownerRefs, uid, i) ==
    IF i > Len(ownerRefs) THEN -1
    ELSE IF ownerRefs[i].uid = uid THEN i - 1
    ELSE IndexFuncFrom(ownerRefs, uid, i + 1)

IndexFunc(ownerRefs, uid) == IndexFuncFrom(ownerRefs, uid, 1)

\* CheckOwnerRefExist(uid, ownerRefs): idx >= 0
CheckOwnerRefExistPositiveIndex(uid, ownerRefs) == IndexFunc(ownerRefs, uid) > 0
CheckOwnerRefExist(uid, ownerRefs) == IndexFunc(ownerRefs, uid) >= 0

\* controllerutil.validateOwner: a namespaced owner needs an object in the
\* same namespace.
ValidateOwner(owner, object) ==
    owner.namespace = "" \/ (object.namespace # "" /\ owner.namespace = object.namespace)

\* controllerutil.SetOwnerReference builds the reference from the owner's
\* GVK, UID and name; Controller and BlockOwnerDeletion stay unset.
NewOwnerRefAsController(owner) ==
    OwnerReference(owner.apiVersion, owner.name, owner.uid, TrueBool)
NewOwnerRef(owner) ==
    OwnerReference(owner.apiVersion, owner.name, owner.uid, NilBool)

\* controllerutil.referSameObject: same API group, kind and name.
ReferSameObject(a, b) ==
    LET aGV == ParseGroupVersion(a.apiVersion)
        bGV == ParseGroupVersion(b.apiVersion)
    IN  /\ ~aGV.err
        /\ ~bGV.err
        /\ aGV.group = bGV.group
        /\ a.kind = b.kind
        /\ a.name = b.name

\* controllerutil.indexOwnerRef: first index referring to the same object, 0 if none.
RECURSIVE IndexOwnerRefFrom(_, _, _)
IndexOwnerRefFrom(ownerReferences, ref, i) ==
    IF i > Len(ownerReferences) THEN 0
    ELSE IF ReferSameObject(ownerReferences[i], ref) THEN i
    ELSE IndexOwnerRefFrom(ownerReferences, ref, i + 1)

IndexOwnerRef(ownerReferences, ref) == IndexOwnerRefFrom(ownerReferences, ref, 1)

\* controllerutil.upsertOwnerRef: append, or overwrite the entry found.
UpsertOwnerRef(ref, ownerReferences) ==
    LET idx == IndexOwnerRef(ownerReferences, ref)
    IN  IF idx = 0 THEN Append(ownerReferences, ref)
        ELSE [ownerReferences EXCEPT ![idx] = ref]

\* controllerutil.SetOwnerReference(owner, object, scheme): the object is
\* changed in place unless the owner is rejected.
SetOwnerReference(owner, object) ==
    IF ~ValidateOwner(owner, object) THEN [err |-> TRUE, object |-> object]
    ELSE [err |-> FALSE,
          object |-> [object EXCEPT
              !.ownerReferences = UpsertOwnerRef(NewOwnerRef(owner), object.ownerReferences)]]

\* client.MergeFrom(beforeObject).Data(object): a JSON merge patch; a list
\* that differs is carried whole under metadata.ownerReferences.
MergePatchData(beforeObject, object) ==
    IF beforeObject.ownerReferences = object.ownerReferences
    THEN [hasMetadata |-> FALSE, ownerReferences |-> <<>>]
    ELSE [hasMetadata |-> TRUE, ownerReferences |-> object.ownerReferences]

\* PatchOwnerRef(owner, object, scheme) -> (patchDiff, patch, err); object is
\* the in-memory object after the call.
PatchOwnerRef(owner, object) ==
    LET beforeObject == object
        set == SetOwnerReference(owner, object)
    IN  IF set.err
        THEN [err |-> TRUE, object |-> object, patchDiff |-> MergePatchData(object, object)]
        ELSE [err |-> FALSE, object |-> set.object,
              patchDiff |-> MergePatchData(beforeObject, set.object)]

\* The API server applying the merge patch to the object it holds.
ApplyPatch(current, patchDiff) ==
    IF patchDiff.hasMetadata
    THEN [current EXCEPT !.ownerReferences = patchDiff.ownerReferences]
    ELSE current

RECURSIVE SumCalls(_, _)
SumCalls(l, ws) ==
    IF ws = {} THEN 0
    ELSE LET w == CHOOSE x \in ws : TRUE IN l[w].n + SumCalls(l, ws \ {w})

\* Outcomes of h.GetClient().Patch
PatchOutcomes(store) ==
    IF store = {} THEN {"notfound"} ELSE {"ok", "conflict", "other"}

\* error returned by EnsureOwnerRef for a patch outcome (lines 208-212)
PatchErrorNotFoundFails(outcome) ==
    IF outcome = "conflict" THEN "conflict"
    ELSE IF outcome # "ok" THEN "failed"
    ELSE "nil"

PatchError(outcome) ==
    IF outcome = "conflict" THEN "conflict"
    ELSE IF outcome # "ok" /\ outcome # "notfound" THEN "failed"
    ELSE "nil"

NoCall ==
    [n |-> 0, called |-> FALSE, owner |-> "", err |-> "nil", patched |-> FALSE,
     outcomes |-> <<>>]

\* Owner-reference lists the target can start with: pairwise distinct UIDs,
\* at most one controller reference.
TargetRefs ==
    {OwnerReference(CoreV1, "a", "u1", NilBool),
     OwnerReference(CoreV1, "a", "u1", TrueBool),
     OwnerReference(CoreV1, "a", "u2", NilBool),
     OwnerReference(CoreV1, "b", "u3", NilBool)}

DistinctUIDs(refs) ==
    \A i, j \in 1..Len(refs) : refs[i].uid = refs[j].uid => i = j

TargetRefLists ==
    {l \in SeqsUpTo(TargetRefs, MaxTargetRefs) : DistinctUIDs(l)}

\* State of the readiness model while the owner-reference model runs.
IdleObj == [namespace |-> "ns1", ownerReferences |-> <<>>]

InitOwnerRef ==
    /\ \E l \in TargetRefLists :
        /\ stored = {Object(l)}
        /\ mem = [w \in Workers |-> Object(l)]
    /\ last = [w \in Workers |-> NoCall]
    /\ obj = IdleObj
    /\ cluster = {}
    /\ verdict = NoVerdict
    /\ hook = IdleHook
    /\ r = IdleR
    /\ h = IdleH
    /\ apiRoles = IdleApiRoles
    /\ crResult = IdleCrResult

\* One call EnsureOwnerRef(ctx, h, owner, object) by worker w on its
\* in-memory object.
EnsureOwnerRef(w, owner) ==
    /\ SumCalls(last, Workers) < MaxCalls
    /\ LET p == PatchOwnerRef(owner, mem[w])
           \* outcomes: what each h.GetClient().Patch of this call answered
           done(err, outcomes) ==
               [n |-> last[w].n + 1, called |-> TRUE, owner |-> owner.uid,
                err |-> err, patched |-> outcomes # <<>>, outcomes |-> outcomes]
       IN  IF p.err
           THEN /\ last' = [last EXCEPT ![w] = done("owner", <<>>)]
                /\ UNCHANGED <<stored, mem>>
           ELSE IF ~p.patchDiff.hasMetadata
           THEN /\ last' = [last EXCEPT ![w] = done("nil", <<>>)]
                /\ mem' = [mem EXCEPT ![w] = p.object]
                /\ UNCHANGED stored
           ELSE \E outcome \in PatchOutcomes(stored) :
                /\ last' = [last EXCEPT ![w] = done(PatchError(outcome), <<outcome>>)]
                /\ IF outcome = "ok"
                   THEN /\ stored' = {ApplyPatch(t, p.patchDiff) : t \in stored}
                        /\ mem' = [mem EXCEPT ![w] = CHOOSE t \in stored' : TRUE]
                   ELSE /\ mem' = [mem EXCEPT ![w] = p.object]
                        /\ UNCHANGED stored
    /\ UNCHANGED <<readyVars, hookVars, roleVars>>

\* Worker w reads the target again from the API server.
Refresh(w) ==
    /\ \E t \in stored : mem' = [mem EXCEPT ![w] = t]
    /\ last' = [last EXCEPT ![w] = [@ EXCEPT !.called = FALSE]]
    /\ <<mem', last'>> # <<mem, last>>
    /\ UNCHANGED stored
    /\ UNCHANGED <<readyVars, hookVars, roleVars>>

\* The target is deleted from the API server.
DeleteTarget ==
    /\ stored # {}
    /\ stored' = {}
    /\ UNCHANGED <<mem, last>>
    /\ UNCHANGED <<readyVars, hookVars, roleVars>>

NextOwnerRef ==
    \/ \E w \in Workers, owner \in Owners : EnsureOwnerRef(w, owner)
    \/ \E w \in Workers : Refresh(w)
    \/ DeleteTarget

SpecOwnerRef == InitOwnerRef /\ [][NextOwnerRef]_vars

(***************************************************************************)
(* Properties of EnsureOwnerRef                                            *)
(***************************************************************************)
\* Worker w's call of EnsureOwnerRef is the step being taken.
CallReturns(w) == last'[w].n = last[w].n + 1
CallReturnsNil(w) == CallReturns(w) /\ last'[w].err = "nil"

CalledOwner(w) == CHOOSE o \in Owners : o.uid = last'[w].owner

\* The reference names the owner object: same API group, kind and name.
RefersTo(ref, owner) ==
    /\ ParseGroupVersion(ref.apiVersion).group = ParseGroupVersion(owner.apiVersion).group
    /\ ref.kind = owner.kind
    /\ ref.name = owner.name

HasNonControllerRef(refs, uid) ==
    \E i \in 1..Len(refs) : refs[i].uid = uid /\ refs[i].controller # TrueBool

\* C8: a second call with the same owner on the same in-memory target, after
\* a first call that returned nil, submits no patch and leaves the target's
\* owner-reference list without a duplicate entry.
C8_SecondCallNoPatchNoDuplicate ==
    [][\A w \in Workers :
        (/\ last[w].called
         /\ last[w].err = "nil"
         /\ CallReturns(w)
         /\ last'[w].owner = last[w].owner)
        => (/\ ~last'[w].patched
            /\ DistinctUIDs(mem'[w].ownerReferences))]_vars

\* The part of C8 that concerns the second call alone: it submits no patch
\* and changes neither the in-memory target nor the stored one.
C8_SecondCallIsNoOp ==
    [][\A w \in Workers :
        (/\ last[w].called
         /\ last[w].err = "nil"
         /\ CallReturns(w)
         /\ last'[w].owner = last[w].owner)
        => (/\ ~last'[w].patched
            /\ last'[w].err = "nil"
            /\ mem' = mem
            /\ stored' = stored)]_vars

C10_NoDuplicateUID ==
    /\ \A w \in DOMAIN mem : DistinctUIDs(mem[w].ownerReferences)
    /\ \A t \in stored : DistinctUIDs(t.ownerReferences)

\* C12: when EnsureOwnerRef submits a patch its result follows the patch
\* outcome: a conflict gives the conflict error, not-found gives nil, any other
\* failure gives the update-failed error, success gives nil; the patch is
\* submitted once, never again within the call.
C12_ResultFollowsPatchOutcome ==
    \A w \in Workers :
        last[w].patched =>
            /\ Len(last[w].outcomes) = 1
            /\ last[w].outcomes[1] = "conflict" => last[w].err = "conflict"
            /\ last[w].outcomes[1] = "notfound" => last[w].err = "nil"
            /\ last[w].outcomes[1] = "other" => last[w].err = "failed"
            /\ last[w].outcomes[1] = "ok" => last[w].err = "nil"
            /\ last[w].outcomes[1] \in {"conflict", "notfound", "other", "ok"}

C12_Witness ==
    \E w \in Workers :
        /\ last[w].called
        /\ last[w].outcomes = <<"notfound">>
        /\ last[w].err = "nil"

(***************************************************************************)
(* Pure functions: each call records its arguments and its result in hook. *)
(***************************************************************************)
UIDs == {"u1", "u2", "u3", "u4"}

NoRet == <<>>
Pending(fn, args) == [fn |-> fn, done |-> FALSE, args |-> args, ret |-> NoRet]
Returned(ret) == [fn |-> hook.fn, done |-> TRUE, args |-> hook.args, ret |-> ret]

\* CheckOwnerRefExist(uid, ownerRefs) on any list of owner references; the
\* function only reads the slice, which is recorded as it is after the call.
CheckOwnerRefExistCalls ==
    {Pending("CheckOwnerRefExist", [uid |-> uid, ownerRefs |-> refs]) :
        uid \in UIDs, refs \in SeqsUpTo(TargetRefs, MaxTargetRefs)}

CallCheckOwnerRefExist ==
    /\ hook.fn = "CheckOwnerRefExist"
    /\ ~hook.done
    /\ hook' = Returned([found |-> CheckOwnerRefExist(hook.args.uid, hook.args.ownerRefs),
                         ownerRefs |-> hook.args.ownerRefs])
    /\ UNCHANGED <<readyVars, ownerRefVars, roleVars>>

(***************************************************************************)
(* Deprecated-field validators (package webhook)                           *)
(***************************************************************************)
MaxFields == 2    \* longest list of deprecated-field mappings

Values == {"", "a", "b"}

\* *string: nil or a pointer to a value
NilString == [isNil |-> TRUE, val |-> ""]
PtrTo(v) == [isNil |-> FALSE, val |-> v]
Pointers == {NilString} \cup {PtrTo(v) : v \in Values}

\* field.Path as the sequence of its segments
NewPath(name) == <<name>>
Child(path, name) == Append(path, name)

\* The warning string: "" or one of the two messages, with the paths it names.
NoWarning == [kind |-> "", deprecated |-> <<>>, new |-> <<>>]
DeprecatedWarning(deprecatedFieldPath, newFieldPath) ==
    [kind |-> "deprecated", deprecated |-> deprecatedFieldPath, new |-> newFieldPath]
BothSetWarning(deprecatedFieldPath, newFieldPath) ==
    [kind |-> "bothSame", deprecated |-> deprecatedFieldPath, new |-> newFieldPath]

\* *field.Error: nil, field.Invalid(path, value, detail) or field.Forbidden(path, detail)
NilError == [type |-> "nil", field |-> <<>>, badValue |-> ""]
Invalid(path, value) == [type |-> "Invalid", field |-> path, badValue |-> value]
Forbidden(path) == [type |-> "Forbidden", field |-> path, badValue |-> ""]

ValidateDeprecatedFieldConflictIgnoreFlag(deprecatedValue, newValue, deprecatedFieldPath, newFieldPath, allowBothIfSame) ==
    IF deprecatedValue = "" /\ newValue = ""
    THEN [warning |-> NoWarning, err |-> NilError]
    ELSE IF deprecatedValue # "" /\ newValue = ""
    THEN [warning |-> DeprecatedWarning(deprecatedFieldPath, newFieldPath), err |-> NilError]
    ELSE IF deprecatedValue = "" /\ newValue # ""
    THEN [warning |-> NoWarning, err |-> NilError]
    ELSE IF deprecatedValue = newValue
    THEN [warning |-> BothSetWarning(deprecatedFieldPath, newFieldPath), err |-> NilError]
    ELSE [warning |-> NoWarning, err |-> Invalid(deprecatedFieldPath, deprecatedValue)]

ValidateDeprecatedFieldConflict(deprecatedValue, newValue, deprecatedFieldPath, newFieldPath, allowBothIfSame) ==
    IF deprecatedValue = "" /\ newValue = ""
    THEN [warning |-> NoWarning, err |-> NilError]
    ELSE IF deprecatedValue # "" /\ newValue = ""
    THEN [warning |-> DeprecatedWarning(deprecatedFieldPath, newFieldPath), err |-> NilError]
    ELSE IF deprecatedValue = "" /\ newValue # ""
    THEN [warning |-> NoWarning, err |-> NilError]
    ELSE IF deprecatedValue = newValue
    THEN IF allowBothIfSame
         THEN [warning |-> BothSetWarning(deprecatedFieldPath, newFieldPath),
               err |-> NilError]
         ELSE [warning |-> NoWarning, err |-> Invalid(deprecatedFieldPath, deprecatedValue)]
    ELSE [warning |-> NoWarning, err |-> Invalid(deprecatedFieldPath, deprecatedValue)]

ValidateDeprecatedFieldChangeNoClearing(oldValue, newValue, deprecatedFieldPath, newFieldPath) ==
    IF oldValue = newValue THEN NilError ELSE Forbidden(deprecatedFieldPath)

ValidateDeprecatedFieldChange(oldValue, newValue, deprecatedFieldPath, newFieldPath) ==
    IF oldValue = newValue THEN NilError
    ELSE IF newValue = "" THEN NilError
    ELSE Forbidden(deprecatedFieldPath)

\* oldVal := ""; if p != nil { oldVal = *p }
DerefNilAsUnset(p) == IF p.isNil THEN "nil" ELSE p.val
Deref(p) == IF ~p.isNil THEN p.val ELSE ""

ValidateDeprecatedFieldConflictPtr(deprecatedValue, newValue, deprecatedFieldPath, newFieldPath, allowBothIfSame) ==
    LET oldVal == Deref(deprecatedValue)
        newVal == Deref(newValue)
    IN  ValidateDeprecatedFieldConflict(oldVal, newVal, deprecatedFieldPath,
                                        newFieldPath, allowBothIfSame)

ValidateDeprecatedFieldChangePtr(oldValue, newValue, deprecatedFieldPath, newFieldPath) ==
    LET oldVal == Deref(oldValue)
        newVal == Deref(newValue)
    IN  ValidateDeprecatedFieldChange(oldVal, newVal, deprecatedFieldPath, newFieldPath)


\* DeprecatedField and DeprecatedFieldUpdate: the i-th mapping of a list carries
\* the i-th field name and a one-segment path to its replacement.
DeprecatedFieldNames == <<"old1", "old2", "old3", "old4">>
NewFieldNames == <<"new1", "new2", "new3", "new4">>
BasePath == NewPath("spec")

DeprecatedField(i, deprecatedValue, newValue) ==
    [deprecatedFieldName |-> DeprecatedFieldNames[i],
     newFieldPath |-> <<NewFieldNames[i]>>,
     deprecatedValue |-> deprecatedValue,
     newValue |-> newValue]

DeprecatedFieldUpdate(i, oldDeprecatedValue, newDeprecatedValue, newValue) ==
    [deprecatedFieldName |-> DeprecatedFieldNames[i],
     newFieldPath |-> <<NewFieldNames[i]>>,
     oldDeprecatedValue |-> oldDeprecatedValue,
     newDeprecatedValue |-> newDeprecatedValue,
     newValue |-> newValue]

\* The list of n mappings whose pointers are given by f.
DeprecatedFieldList(n, f) ==
    [i \in 1..n |-> DeprecatedField(i, f[i][1], f[i][2])]

DeprecatedFieldUpdateList(n, f) ==
    [i \in 1..n |-> DeprecatedFieldUpdate(i, f[i][1], f[i][2], f[i][3])]

\* newPath := basePath; for _, segment := range df.NewFieldPath { newPath = newPath.Child(segment) }
RECURSIVE ChildPath(_, _, _)
ChildPath(path, segments, i) ==
    IF i > Len(segments) THEN path
    ELSE ChildPath(Child(path, segments[i]), segments, i + 1)

\* The loop of ValidateDeprecatedFieldsCreate from mapping i on; the error of the
\* conflict check is assigned to the blank identifier.
RECURSIVE CreateLoop(_, _, _, _)
CreateLoop(deprecatedFields, basePath, i, allWarnings) ==
    IF i > Len(deprecatedFields) THEN allWarnings
    ELSE LET df == deprecatedFields[i]
             deprecatedPath == Child(basePath, df.deprecatedFieldName)
             newPath == ChildPath(basePath, df.newFieldPath, 1)
             res == ValidateDeprecatedFieldConflictPtr(df.deprecatedValue, df.newValue,
                                                       deprecatedPath, newPath, TRUE)
             warning == res.warning
         IN  CreateLoop(deprecatedFields, basePath, i + 1,
                        IF warning # NoWarning THEN Append(allWarnings, warning)
                        ELSE allWarnings)

ValidateDeprecatedFieldsCreate(deprecatedFields, basePath) ==
    CreateLoop(deprecatedFields, basePath, 1, <<>>)

RECURSIVE UpdateLoopConflictOnly(_, _, _, _, _)
UpdateLoopConflictOnly(deprecatedFields, basePath, i, allWarnings, allErrors) ==
    IF i > Len(deprecatedFields) THEN [warnings |-> allWarnings, errors |-> allErrors]
    ELSE LET df == deprecatedFields[i]
             deprecatedPath == Child(basePath, df.deprecatedFieldName)
             newPath == ChildPath(basePath, df.newFieldPath, 1)
             res == ValidateDeprecatedFieldConflictPtr(df.newDeprecatedValue, df.newValue,
                                                       deprecatedPath, newPath, TRUE)
         IN  UpdateLoopConflictOnly(deprecatedFields, basePath, i + 1,
                        IF res.warning # NoWarning THEN Append(allWarnings, res.warning)
                        ELSE allWarnings,
                        IF res.err # NilError THEN Append(allErrors, res.err)
                        ELSE allErrors)

\* The loop of ValidateDeprecatedFieldsUpdate from mapping i on.
RECURSIVE UpdateLoop(_, _, _, _, _)
UpdateLoop(deprecatedFields, basePath, i, allWarnings, allErrors) ==
    IF i > Len(deprecatedFields) THEN [warnings |-> allWarnings, errors |-> allErrors]
    ELSE LET df == deprecatedFields[i]
             deprecatedPath == Child(basePath, df.deprecatedFieldName)
             newPath == ChildPath(basePath, df.newFieldPath, 1)
             res == ValidateDeprecatedFieldConflictPtr(df.newDeprecatedValue, df.newValue,
                                                       deprecatedPath, newPath, TRUE)
             errs1 == IF res.err # NilError THEN Append(allErrors, res.err) ELSE allErrors
             err == ValidateDeprecatedFieldChangePtr(df.oldDeprecatedValue,
                                                     df.newDeprecatedValue,
                                                     deprecatedPath, newPath)
             errs2 == IF err # NilError THEN Append(errs1, err) ELSE errs1
         IN  UpdateLoop(deprecatedFields, basePath, i + 1,
                        IF res.warning # NoWarning THEN Append(allWarnings, res.warning)
                        ELSE allWarnings,
                        errs2)

ValidateDeprecatedFieldsUpdate(deprecatedFields, basePath) ==
    UpdateLoop(deprecatedFields, basePath, 1, <<>>, <<>>)

(***************************************************************************)
(* The validators as a state machine: Init draws one call with its         *)
(* arguments, the action of the called function returns its result.        *)
(***************************************************************************)
DeprecatedFieldPath == Child(BasePath, DeprecatedFieldNames[1])
NewFieldPath == Child(BasePath, NewFieldNames[1])

ConflictCalls ==
    {Pending("ValidateDeprecatedFieldConflict",
             [deprecatedValue |-> d, newValue |-> n, allowBothIfSame |-> a]) :
        d \in Values, n \in Values, a \in BOOLEAN}
ChangeCalls ==
    {Pending("ValidateDeprecatedFieldChange", [oldValue |-> o, newValue |-> n]) :
        o \in Values, n \in Values}
ConflictPtrCalls ==
    {Pending("ValidateDeprecatedFieldConflictPtr",
             [deprecatedValue |-> d, newValue |-> n, allowBothIfSame |-> a]) :
        d \in Pointers, n \in Pointers, a \in BOOLEAN}
ChangePtrCalls ==
    {Pending("ValidateDeprecatedFieldChangePtr", [oldValue |-> o, newValue |-> n]) :
        o \in Pointers, n \in Pointers}
\* Every list of at most MaxFields mappings is an argument of the list validators.
CreateCall ==
    \E n \in 0..MaxFields : \E f \in [1..n -> Pointers \X Pointers] :
        hook = Pending("ValidateDeprecatedFieldsCreate",
                       [deprecatedFields |-> DeprecatedFieldList(n, f)])
UpdateCall ==
    \E n \in 0..MaxFields : \E f \in [1..n -> Pointers \X Pointers \X Pointers] :
        hook = Pending("ValidateDeprecatedFieldsUpdate",
                       [deprecatedFields |-> DeprecatedFieldUpdateList(n, f)])

InitHook ==
    /\ \/ hook \in CheckOwnerRefExistCalls \cup ConflictCalls \cup ChangeCalls
                    \cup ConflictPtrCalls \cup ChangePtrCalls
       \/ CreateCall
       \/ UpdateCall
    /\ obj = IdleObj
    /\ cluster = {}
    /\ verdict = NoVerdict
    /\ stored = IdleStored
    /\ mem = IdleMem
    /\ last = IdleLast
    /\ r = IdleR
    /\ h = IdleH
    /\ apiRoles = IdleApiRoles
    /\ crResult = IdleCrResult

Called(fn) == hook.fn = fn /\ ~hook.done

CallValidateDeprecatedFieldConflict ==
    /\ Called("ValidateDeprecatedFieldConflict")
    /\ hook' = Returned(ValidateDeprecatedFieldConflict(
                   hook.args.deprecatedValue, hook.args.newValue,
                   DeprecatedFieldPath, NewFieldPath, hook.args.allowBothIfSame))
    /\ UNCHANGED <<readyVars, ownerRefVars, roleVars>>

CallValidateDeprecatedFieldChange ==
    /\ Called("ValidateDeprecatedFieldChange")
    /\ hook' = Returned(ValidateDeprecatedFieldChange(
                   hook.args.oldValue, hook.args.newValue,
                   DeprecatedFieldPath, NewFieldPath))
    /\ UNCHANGED <<readyVars, ownerRefVars, roleVars>>

CallValidateDeprecatedFieldConflictPtr ==
    /\ Called("ValidateDeprecatedFieldConflictPtr")
    /\ hook' = Returned(ValidateDeprecatedFieldConflictPtr(
                   hook.args.deprecatedValue, hook.args.newValue,
                   DeprecatedFieldPath, NewFieldPath, hook.args.allowBothIfSame))
    /\ UNCHANGED <<readyVars, ownerRefVars, roleVars>>

CallValidateDeprecatedFieldChangePtr ==
    /\ Called("ValidateDeprecatedFieldChangePtr")
    /\ hook' = Returned(ValidateDeprecatedFieldChangePtr(
                   hook.args.oldValue, hook.args.newValue,
                   DeprecatedFieldPath, NewFieldPath))
    /\ UNCHANGED <<readyVars, ownerRefVars, roleVars>>

CallValidateDeprecatedFieldsCreate ==
    /\ Called("ValidateDeprecatedFieldsCreate")
    /\ hook' = Returned(ValidateDeprecatedFieldsCreate(hook.args.deprecatedFields, BasePath))
    /\ UNCHANGED <<readyVars, ownerRefVars, roleVars>>

CallValidateDeprecatedFieldsUpdate ==
    /\ Called("ValidateDeprecatedFieldsUpdate")
    /\ hook' = Returned(ValidateDeprecatedFieldsUpdate(hook.args.deprecatedFields, BasePath))
    /\ UNCHANGED <<readyVars, ownerRefVars, roleVars>>

NextHook ==
    \/ CallCheckOwnerRefExist
    \/ CallValidateDeprecatedFieldConflict
    \/ CallValidateDeprecatedFieldChange
    \/ CallValidateDeprecatedFieldConflictPtr
    \/ CallValidateDeprecatedFieldChangePtr
    \/ CallValidateDeprecatedFieldsCreate
    \/ CallValidateDeprecatedFieldsUpdate

SpecHook == InitHook /\ [][NextHook]_vars


(***************************************************************************)
(* Properties of the pure functions                                        *)
(***************************************************************************)
Returns(fn) == hook.fn = fn /\ hook.done

\* The string a pointer stands for: nil stands for the empty string.
Str(p) == IF p.isNil THEN "" ELSE p.val

Warns(ret) == ret.warning # NoWarning
Errs(ret) == ret.err # NilError

\* C11: CheckOwnerRefExist(uid, refs) returns true if and only if some element
\* of refs has UID equal to uid (so false for the empty list), and refs is the
\* same list after the call.
C11_TrueIffUIDPresent ==
    Returns("CheckOwnerRefExist") =>
        /\ hook.ret.found <=>
              \E i \in 1..Len(hook.args.ownerRefs) :
                  hook.args.ownerRefs[i].uid = hook.args.uid
        /\ hook.args.ownerRefs = <<>> => ~hook.ret.found
        /\ hook.ret.ownerRefs = hook.args.ownerRefs

C11_Witness ==
    /\ Returns("CheckOwnerRefExist")
    /\ Len(hook.args.ownerRefs) = 2
    /\ hook.args.ownerRefs[1].uid = hook.args.uid
    /\ hook.args.ownerRefs[2].uid # hook.args.uid
    /\ hook.ret.found

\* C13: ValidateDeprecatedFieldConflict returns: both empty -> no warning, no
\* error; only deprecated set -> warning, no error; only new set -> no warning,
\* no error; both set and equal -> warning and no error if allowBothIfSame,
\* else error and no warning; both set and different -> error and no warning
\* whatever allowBothIfSame is.
C13_ConflictTable ==
    Returns("ValidateDeprecatedFieldConflict") =>
        LET d == hook.args.deprecatedValue
            n == hook.args.newValue
            a == hook.args.allowBothIfSame
            w == Warns(hook.ret)
            e == Errs(hook.ret)
        IN  /\ (d = "" /\ n = "") => (~w /\ ~e)
            /\ (d # "" /\ n = "") => (w /\ ~e)
            /\ (d = "" /\ n # "") => (~w /\ ~e)
            /\ (d # "" /\ n # "" /\ d = n /\ a) => (w /\ ~e)
            /\ (d # "" /\ n # "" /\ d = n /\ ~a) => (e /\ ~w)
            /\ (d # "" /\ n # "" /\ d # n) => (e /\ ~w)

C13_Witness ==
    /\ Returns("ValidateDeprecatedFieldConflict")
    /\ hook.args.deprecatedValue = "a"
    /\ hook.args.newValue = "a"
    /\ ~hook.args.allowBothIfSame
    /\ Errs(hook.ret)

\* C14: ValidateDeprecatedFieldsCreate reports to its caller every mapping whose
\* deprecated field and new field are both set to different values: something
\* in what it returns names that deprecated field.
C14_DifferentValuesAreReported ==
    Returns("ValidateDeprecatedFieldsCreate") =>
        \A i \in 1..Len(hook.args.deprecatedFields) :
            LET df == hook.args.deprecatedFields[i]
            IN  (Str(df.deprecatedValue) # "" /\ Str(df.newValue) # ""
                    /\ Str(df.deprecatedValue) # Str(df.newValue)) =>
                \E k \in 1..Len(hook.ret) :
                    hook.ret[k].deprecated = Child(BasePath, df.deprecatedFieldName)

\* C15: ValidateDeprecatedFieldChange(old, new) returns an error if and only if
\* new is non-empty and differs from old.
C15_ChangeErrorsIff ==
    Returns("ValidateDeprecatedFieldChange") =>
        (hook.ret # NilError <=>
            (hook.args.newValue # "" /\ hook.args.newValue # hook.args.oldValue))

C15_Witness ==
    /\ Returns("ValidateDeprecatedFieldChange")
    /\ hook.args.oldValue = "a"
    /\ hook.args.newValue = ""
    /\ hook.ret = NilError

\* C16: the pointer variants return exactly what the string variants return
\* when every nil pointer is replaced by the empty string, so nil and a pointer
\* to the empty string give the same result.
C16_PtrVariantsAgree ==
    /\ Returns("ValidateDeprecatedFieldConflictPtr") =>
           hook.ret = ValidateDeprecatedFieldConflict(
                          Str(hook.args.deprecatedValue), Str(hook.args.newValue),
                          DeprecatedFieldPath, NewFieldPath, hook.args.allowBothIfSame)
    /\ Returns("ValidateDeprecatedFieldChangePtr") =>
           hook.ret = ValidateDeprecatedFieldChange(
                          Str(hook.args.oldValue), Str(hook.args.newValue),
                          DeprecatedFieldPath, NewFieldPath)

C16_Witness ==
    /\ Returns("ValidateDeprecatedFieldConflictPtr")
    /\ hook.args.deprecatedValue = NilString
    /\ hook.args.newValue = PtrTo("a")
    /\ ~Warns(hook.ret)
    /\ ~Errs(hook.ret)

\* What one mapping of an update contributes, by the values its pointers stand for.
ConflictWarns(df) ==
    /\ Str(df.newDeprecatedValue) # ""
    /\ Str(df.newValue) \in {"", Str(df.newDeprecatedValue)}
ConflictErrs(df) ==
    /\ Str(df.newDeprecatedValue) # ""
    /\ Str(df.newValue) # ""
    /\ Str(df.newValue) # Str(df.newDeprecatedValue)
ChangeErrs(df) ==
    /\ Str(df.newDeprecatedValue) # ""
    /\ Str(df.newDeprecatedValue) # Str(df.oldDeprecatedValue)

RECURSIVE ExpectedWarnings(_, _)
ExpectedWarnings(fields, n) ==
    IF n = 0 THEN <<>>
    ELSE ExpectedWarnings(fields, n - 1)
            \o (IF ConflictWarns(fields[n])
                THEN <<Child(BasePath, fields[n].deprecatedFieldName)>> ELSE <<>>)

RECURSIVE ExpectedErrors(_, _)
ExpectedErrors(fields, n) ==
    IF n = 0 THEN <<>>
    ELSE ExpectedErrors(fields, n - 1)
            \o (IF ConflictErrs(fields[n])
                THEN <<<<"Invalid", Child(BasePath, fields[n].deprecatedFieldName)>>>>
                ELSE <<>>)
            \o (IF ChangeErrs(fields[n])
                THEN <<<<"Forbidden", Child(BasePath, fields[n].deprecatedFieldName)>>>>
                ELSE <<>>)

\* C17: ValidateDeprecatedFieldsUpdate returns, in input order, one warning for
\* each mapping whose conflict check (new deprecated value against new value,
\* same values allowed) warns, and one error for each mapping whose conflict
\* check errors plus one for each mapping whose change check (old against new
\* deprecated value) errors; a mapping gives at most one warning and at most
\* two errors.
C17_UpdateCollectsInOrder ==
    Returns("ValidateDeprecatedFieldsUpdate") =>
        LET fields == hook.args.deprecatedFields
            ws == hook.ret.warnings
            es == hook.ret.errors
        IN  /\ [k \in 1..Len(ws) |-> ws[k].deprecated]
                  = ExpectedWarnings(fields, Len(fields))
            /\ [k \in 1..Len(es) |-> <<es[k].type, es[k].field>>]
                  = ExpectedErrors(fields, Len(fields))
            /\ \A i \in 1..Len(fields) :
                 LET path == Child(BasePath, fields[i].deprecatedFieldName)
                 IN  /\ Cardinality({k \in 1..Len(ws) : ws[k].deprecated = path}) <= 1
                     /\ Cardinality({k \in 1..Len(es) : es[k].field = path}) <= 2

C17_Witness ==
    /\ Returns("ValidateDeprecatedFieldsUpdate")
    /\ Len(hook.args.deprecatedFields) = 2
    /\ ConflictErrs(hook.args.deprecatedFields[1])
    /\ ChangeErrs(hook.args.deprecatedFields[1])
    /\ ConflictWarns(hook.args.deprecatedFields[2])
    /\ Len(hook.ret.errors) = 2
    /\ Len(hook.ret.warnings) = 1


(***************************************************************************)
(* ClusterRole reconciler (package clusterrole)                            *)
(***************************************************************************)
MaxKeys == 1      \* most keys in a label or annotation map

RoleName == "role"
Keys == {"k1", "k2"}
LiveVals == {"x"}
DesiredVals == {"y"}

\* map[string]string with at most MaxKeys keys; the nil map is the empty one.
StringMaps(vals) ==
    UNION {[ks -> vals] : ks \in {ks \in SUBSET Keys : Cardinality(ks) <= MaxKeys}}
EmptyMap == <<>>

\* []rbacv1.PolicyRule, a rule standing for its verb
DesiredRules == {<<>>, <<"get">>, <<"list", "watch">>}
LiveRules == {<<>>, <<"list", "watch">>}

\* time.Duration values given to NewClusterRole
Timeouts == {0, 5}

\* rbacv1.ClusterRole
ClusterRoleObject(namespace, labels, annotations, rules, ownerReferences) ==
    [name |-> RoleName, namespace |-> namespace, labels |-> labels,
     annotations |-> annotations, rules |-> rules,
     ownerReferences |-> ownerReferences]

\* NewClusterRole(clusterrole, timeout)
NewClusterRole(clusterrole, timeout) == [clusterrole |-> clusterrole, timeout |-> timeout]

\* The desired ClusterRoles a controller passes in.
DesiredClusterRoles ==
    {ClusterRoleObject(ns, l, a, rules, <<>>) :
        ns \in {"", "ns1"}, l \in StringMaps(DesiredVals), a \in StringMaps(DesiredVals),
        rules \in DesiredRules}

\* ClusterRoles found in the API server: cluster-scoped, possibly controlled
\* by another object.
LiveClusterRoles ==
    {ClusterRoleObject("", l, a, rules, refs) :
        l \in StringMaps(LiveVals), a \in StringMaps(LiveVals), rules \in LiveRules,
        refs \in {<<>>, <<OwnerReference(CoreV1, "b", "u3", TrueBool)>>}}

\* h.GetBeforeObject(): the controller's object, cluster-scoped or namespaced
BeforeObjects == {Owner("a", "u1", ""), Owner("a", "u1", "ns1")}

\* Errors: nil, an error of the client, an error of SetControllerReference.
NoErr == [kind |-> "nil"]
ClientErrNil(outcome) == [kind |-> "nil"]
ClientErr(outcome) ==
    [kind |-> IF outcome = "notfound" THEN "NotFound"
              ELSE IF outcome = "conflict" THEN "Conflict"
              ELSE "Other"]
InvalidOwnerErr == [kind |-> "InvalidOwner"]
AlreadyOwnedErr == [kind |-> "AlreadyOwned"]

\* k8s_errors.IsNotFound
IsNotFoundAny(err) == err.kind # "nil"
IsNotFoundNever(err) == FALSE
IsNotFound(err) == err.kind = "NotFound"

\* util.MergeStringMaps(baseMap, extraMap): the keys of both maps; on a key of
\* both the value of extraMap.
MergeStringMaps(baseMap, extraMap) ==
    [k \in DOMAIN baseMap \cup DOMAIN extraMap |->
        IF k \in DOMAIN extraMap THEN extraMap[k] ELSE baseMap[k]]

\* util.WrapErrorForObject(msg, object, err): err wrapped with the message and
\* the object's kind and name.
WrapErrorForObject(msg, object, err) ==
    [kind |-> "Wrapped", msg |-> msg, objectKind |-> "ClusterRole",
     objectName |-> object.name, cause |-> err]

\* fmt.Sprintf / fmt.Errorf with the name as argument
Sprintf(format, name) == <<format, name>>
Errorf(format, name, err) == [kind |-> "Errorf", msg |-> <<format, name>>, cause |-> err]

\* metav1.GetControllerOf: the references marked controller, first one taken
GetControllerOf(controlled) ==
    LET idx == {i \in 1..Len(controlled.ownerReferences) :
                    IsController(controlled.ownerReferences[i])}
    IN  IF idx = {} THEN {}
        ELSE {controlled.ownerReferences[CHOOSE i \in idx : \A j \in idx : i <= j]}

\* controllerutil.SetControllerReference(owner, controlled, scheme)
SetControllerReference(owner, controlled) ==
    IF ~ValidateOwner(owner, controlled)
    THEN [err |-> InvalidOwnerErr, object |-> controlled]
    ELSE LET ref == OwnerReference(owner.apiVersion, owner.name, owner.uid, TrueBool)
         IN  IF \E existing \in GetControllerOf(controlled) : ~ReferSameObject(existing, ref)
             THEN [err |-> AlreadyOwnedErr, object |-> controlled]
             ELSE [err |-> NoErr,
                   object |-> [controlled EXCEPT
                       !.ownerReferences = UpsertOwnerRef(ref, controlled.ownerReferences)]]

MutateLabelsReplaced(clusterrole, desired, owner) ==
    LET labels == desired.labels
        annotations == MergeStringMaps(labels, desired.annotations)
        set == SetControllerReference(owner,
                   [clusterrole EXCEPT !.labels = labels, !.annotations = annotations,
                                       !.rules = desired.rules])
    IN  [err |-> set.err, object |-> set.object, desired |-> desired]

MutateRulesAppended(clusterrole, desired, owner) ==
    LET labels == MergeStringMaps(clusterrole.labels, desired.labels)
        annotations == MergeStringMaps(labels, desired.annotations)
        set == SetControllerReference(owner,
                   [clusterrole EXCEPT !.labels = labels, !.annotations = annotations,
                                       !.rules = clusterrole.rules \o desired.rules])
    IN  [err |-> set.err, object |-> set.object, desired |-> desired]

MutateWritesDesired(clusterrole, desired, owner) ==
    LET labels == MergeStringMaps(clusterrole.labels, desired.labels)
        annotations == MergeStringMaps(labels, desired.annotations)
        set == SetControllerReference(owner,
                   [clusterrole EXCEPT !.labels = labels, !.annotations = annotations,
                                       !.rules = desired.rules])
    IN  [err |-> set.err, object |-> set.object,
         desired |-> [desired EXCEPT !.labels = labels]]

\* The mutate function handed to controllerutil.CreateOrPatch: the second
\* merge reads clusterrole.Labels, which the first merge has just assigned.
\* The closure reads r.clusterrole through its pointer and assigns only to
\* fields of clusterrole; desired is r.clusterrole as the closure leaves it.
Mutate(clusterrole, desired, owner) ==
    LET labels == MergeStringMaps(clusterrole.labels, desired.labels)
        annotations == MergeStringMaps(labels, desired.annotations)
        set == SetControllerReference(owner,
                   [clusterrole EXCEPT !.labels = labels, !.annotations = annotations,
                                       !.rules = desired.rules])
    IN  [err |-> set.err, object |-> set.object, desired |-> desired]

\* What the API server keeps of a ClusterRole: it has no namespace.
Stored(object) == [object EXCEPT !.namespace = ""]

\* c.Get decodes the live object into the object passed; the namespace, absent
\* from a cluster-scoped object, stays as it was.
Into(object, live) == [live EXCEPT !.namespace = object.namespace]

Call(verb, outcome) == [verb |-> verb, outcome |-> outcome]

\* A call of CreateOrPatch meets at most one failing client call: none, or the
\* Get, Create or Patch answering with an error (a Get of an absent object is
\* decided by the store, not by a fault).
NoFault == Call("none", "ok")
Faults ==
    {NoFault, Call("Get", "other"),
     Call("Create", "notfound"), Call("Create", "other"),
     Call("Patch", "notfound"), Call("Patch", "conflict"), Call("Patch", "other")}
OutcomeOf(fault, verb) == IF fault.verb = verb THEN fault.outcome ELSE "ok"

\* controllerutil.CreateOrPatch(ctx, c, object, f): Get; when not found mutate
\* and Create; when found mutate and Patch if the object changed. A Patch
\* answered not-found means the object was deleted after the Get.
ControllerutilCreateOrPatch(store, object, desired, owner, fault) ==
    IF OutcomeOf(fault, "Get") # "ok"
    THEN [err |-> ClientErr(OutcomeOf(fault, "Get")), store |-> store,
          desired |-> desired,
          calls |-> <<Call("Get", OutcomeOf(fault, "Get"))>>]
    ELSE IF store = {}
    THEN LET m == Mutate(object, desired, owner)
         IN  IF m.err # NoErr
             THEN [desired |-> m.desired, err |-> m.err, store |-> store, calls |-> <<Call("Get", "notfound")>>]
             ELSE IF OutcomeOf(fault, "Create") # "ok"
             THEN [desired |-> m.desired, err |-> ClientErr(OutcomeOf(fault, "Create")), store |-> store,
                   calls |-> <<Call("Get", "notfound"),
                               Call("Create", OutcomeOf(fault, "Create"))>>]
             ELSE [desired |-> m.desired, err |-> NoErr, store |-> {Stored(m.object)},
                   calls |-> <<Call("Get", "notfound"), Call("Create", "ok")>>]
    ELSE LET live == CHOOSE o \in store : o.name = object.name
             before == Into(object, live)
             m == Mutate(before, desired, owner)
         IN  IF m.err # NoErr
             THEN [desired |-> m.desired, err |-> m.err, store |-> store, calls |-> <<Call("Get", "ok")>>]
             ELSE IF m.object = before
             THEN [desired |-> m.desired, err |-> NoErr, store |-> store, calls |-> <<Call("Get", "ok")>>]
             ELSE IF OutcomeOf(fault, "Patch") = "ok"
             THEN [desired |-> m.desired, err |-> NoErr, store |-> {Stored(m.object)},
                   calls |-> <<Call("Get", "ok"), Call("Patch", "ok")>>]
             ELSE [desired |-> m.desired, err |-> ClientErr(OutcomeOf(fault, "Patch")),
                   store |-> IF OutcomeOf(fault, "Patch") = "notfound" THEN {} ELSE store,
                   calls |-> <<Call("Get", "ok"),
                               Call("Patch", OutcomeOf(fault, "Patch"))>>]

\* ctrl.Result{} and what the last call of the reconciler returned
ZeroDuration == 0
NoRoleCall ==
    [fn |-> "none", before |-> {}, calls |-> <<>>, requeueAfter |-> ZeroDuration,
     err |-> NoErr]

InitRole ==
    /\ r \in {NewClusterRole(c, t) : c \in DesiredClusterRoles, t \in Timeouts}
    /\ h \in {[beforeObject |-> o] : o \in BeforeObjects}
    /\ apiRoles \in {{}} \cup {{o} : o \in LiveClusterRoles}
    /\ crResult = NoRoleCall
    /\ obj = IdleObj
    /\ cluster = {}
    /\ verdict = NoVerdict
    /\ stored = IdleStored
    /\ mem = IdleMem
    /\ last = IdleLast
    /\ hook = IdleHook

\* ClusterRole.CreateOrPatch(ctx, h)
CreateOrPatch ==
    /\ \E fault \in Faults :
        LET clusterrole == ClusterRoleObject(r.clusterrole.namespace, EmptyMap, EmptyMap,
                                             <<>>, <<>>)
            res == ControllerutilCreateOrPatch(apiRoles, clusterrole, r.clusterrole,
                                               h.beforeObject, fault)
            returns(requeueAfter, err) ==
                [fn |-> "CreateOrPatch", before |-> apiRoles, calls |-> res.calls,
                 requeueAfter |-> requeueAfter, err |-> err]
        IN  /\ apiRoles' = res.store
            /\ r' = [r EXCEPT !.clusterrole = res.desired]
            /\ crResult' =
                 IF res.err # NoErr
                 THEN IF IsNotFound(res.err)
                      THEN returns(r.timeout, NoErr)
                      ELSE returns(ZeroDuration,
                                   WrapErrorForObject(
                                       Sprintf("Error creating clusterrole %s", clusterrole.name),
                                       clusterrole, res.err))
                 ELSE returns(ZeroDuration, NoErr)
    /\ UNCHANGED h
    /\ UNCHANGED <<readyVars, ownerRefVars, hookVars>>

\* Outcomes of h.GetClient().Delete
DeleteOutcomes(store) ==
    IF store = {} THEN {"notfound", "other"} ELSE {"ok", "other"}

\* ClusterRole.Delete(ctx, h)
Delete ==
    /\ \E outcome \in DeleteOutcomes(apiRoles) :
        LET err == IF outcome = "ok" THEN NoErr ELSE ClientErr(outcome)
        IN  /\ apiRoles' = IF outcome = "ok" THEN {} ELSE apiRoles
            /\ crResult' =
                 [fn |-> "Delete", before |-> apiRoles,
                  calls |-> <<Call("Delete", outcome)>>,
                  requeueAfter |-> ZeroDuration,
                  err |-> IF err # NoErr /\ ~IsNotFound(err)
                          THEN Errorf("Error deleting clusterrole %s: %w",
                                      r.clusterrole.name, err)
                          ELSE NoErr]
    /\ UNCHANGED <<r, h>>
    /\ UNCHANGED <<readyVars, ownerRefVars, hookVars>>

NextRole ==
    \/ CreateOrPatch
    \/ Delete

SpecRole == InitRole /\ [][NextRole]_vars


(***************************************************************************)
(* Properties of the ClusterRole reconciler                                *)
(***************************************************************************)
CreateOrPatchReturned == crResult.fn = "CreateOrPatch"
LastCall == crResult.calls[Len(crResult.calls)]

\* The client answered a Create or a Patch with not-found (a Get that finds
\* nothing is the absent case, which leads to the Create).
ClientNotFound ==
    /\ CreateOrPatchReturned
    /\ LastCall.verb \in {"Create", "Patch"}
    /\ LastCall.outcome = "notfound"

\* The client answered a call with an error other than not-found.
ClientFailedOtherwise ==
    /\ CreateOrPatchReturned
    /\ LastCall.outcome \in {"conflict", "other"}

\* The controller reference cannot be set: the owner is namespaced and the
\* ClusterRole is not in its namespace, or the live ClusterRole is controlled
\* by another object.
OwnerRejected ==
    /\ h.beforeObject.namespace # ""
    /\ r.clusterrole.namespace # h.beforeObject.namespace
ControlledByOther ==
    \E o \in crResult.before : \E i \in 1..Len(o.ownerReferences) :
        /\ o.ownerReferences[i].controller = TrueBool
        /\ o.ownerReferences[i].name # h.beforeObject.name
SetReferenceFails ==
    /\ CreateOrPatchReturned
    /\ crResult.calls[1].outcome # "other"
    /\ OwnerRejected \/ ControlledByOther

\* Nothing failed: every client call was answered and the reference was set.
Succeeded ==
    /\ CreateOrPatchReturned
    /\ ~SetReferenceFails
    /\ LastCall.outcome = "ok"

WrapsWithName(err, cause) ==
    /\ err.kind = "Wrapped"
    /\ err.objectName = r.clusterrole.name
    /\ err.msg[2] = r.clusterrole.name
    /\ err.cause = cause

\* C18: when the client reports not-found during ClusterRole CreateOrPatch the
\* call returns requeueAfter equal to the configured timeout and a nil error.
C18_NotFoundRequeues ==
    ClientNotFound => (crResult.requeueAfter = r.timeout /\ crResult.err = NoErr)

C18_Witness ==
    /\ ClientNotFound
    /\ LastCall.verb = "Patch"
    /\ r.timeout # ZeroDuration
    /\ crResult.requeueAfter = r.timeout

\* C19: when ClusterRole CreateOrPatch fails with an error other than not-found,
\* a failure to set the controller reference included, it returns a zero
\* requeueAfter and an error wrapping the failure with the ClusterRole's name;
\* when it succeeds it returns a zero requeueAfter and nil.
C19_OtherFailuresWrapped ==
    /\ ClientFailedOtherwise =>
          /\ crResult.requeueAfter = ZeroDuration
          /\ WrapsWithName(crResult.err, ClientErr(LastCall.outcome))
    /\ SetReferenceFails =>
          /\ crResult.requeueAfter = ZeroDuration
          /\ \/ WrapsWithName(crResult.err, InvalidOwnerErr)
             \/ WrapsWithName(crResult.err, AlreadyOwnedErr)
    /\ Succeeded =>
          /\ crResult.requeueAfter = ZeroDuration
          /\ crResult.err = NoErr

C19_Witness ==
    /\ SetReferenceFails
    /\ ControlledByOther
    /\ ~OwnerRejected
    /\ WrapsWithName(crResult.err, AlreadyOwnedErr)

\* C20: after ClusterRole CreateOrPatch succeeds on a ClusterRole that was
\* present, the live annotations are the previous live annotations merged with
\* the desired ones: every desired key is there, every previous live key is
\* kept, and no other key (no label) has come in.
C20_AnnotationsMerged ==
    (Succeeded /\ crResult.before # {}) =>
        \A old \in crResult.before, new \in apiRoles :
            /\ DOMAIN r.clusterrole.annotations \subseteq DOMAIN new.annotations
            /\ DOMAIN old.annotations \subseteq DOMAIN new.annotations
            /\ DOMAIN new.annotations \subseteq
                   DOMAIN old.annotations \cup DOMAIN r.clusterrole.annotations


\* C21: after ClusterRole CreateOrPatch succeeds on a ClusterRole that was
\* present, the live labels are the union of the previous live labels and the
\* desired labels, and a key of both has the desired value.
C21_LabelsMergedDesiredWins ==
    (Succeeded /\ crResult.before # {}) =>
        \A old \in crResult.before, new \in apiRoles :
            /\ DOMAIN new.labels = DOMAIN old.labels \cup DOMAIN r.clusterrole.labels
            /\ \A k \in DOMAIN r.clusterrole.labels :
                   new.labels[k] = r.clusterrole.labels[k]
            /\ \A k \in DOMAIN old.labels \ DOMAIN r.clusterrole.labels :
                   new.labels[k] = old.labels[k]

C21_Witness ==
    /\ Succeeded
    /\ \E old \in crResult.before, new \in apiRoles, k \in Keys :
        /\ k \in DOMAIN old.labels
        /\ k \in DOMAIN r.clusterrole.labels
        /\ old.labels[k] # r.clusterrole.labels[k]
        /\ new.labels[k] = r.clusterrole.labels[k]

\* C22: after ClusterRole CreateOrPatch succeeds the live rules are exactly the
\* desired rules: previous rules absent from desired are gone, and an empty
\* desired list empties the live rules.
C22_RulesReplaced ==
    Succeeded =>
        /\ apiRoles # {}
        /\ \A new \in apiRoles : new.rules = r.clusterrole.rules

C22_Witness ==
    /\ Succeeded
    /\ \E old \in crResult.before : old.rules # <<>>
    /\ r.clusterrole.rules = <<>>
    /\ \A new \in apiRoles : new.rules = <<>>

ReturnsZeroNil ==
    /\ CreateOrPatchReturned
    /\ crResult.requeueAfter = ZeroDuration
    /\ crResult.err = NoErr
NamedRoles == {o \in apiRoles : o.name = r.clusterrole.name}

\* C23 as stated: a ClusterRole CreateOrPatch that returns (zero requeueAfter,
\* nil) leaves exactly one ClusterRole of that name in the store, whether it
\* was absent or present before.
C23_ZeroNilMeansPresent ==
    ReturnsZeroNil => Cardinality(NamedRoles) = 1

\* C23: with a non-zero configured timeout, a ClusterRole CreateOrPatch that
\* returns (zero requeueAfter, nil) leaves exactly one ClusterRole of that name
\* in the store, whether it was absent or present before.
C23_ZeroNilMeansPresentWithTimeout ==
    (ReturnsZeroNil /\ r.timeout # ZeroDuration) => Cardinality(NamedRoles) = 1

C23_Witness ==
    /\ ReturnsZeroNil
    /\ r.timeout # ZeroDuration
    /\ crResult.before = {}
    /\ LastCall = Call("Create", "ok")
    /\ Cardinality(NamedRoles) = 1

DeleteReturned == crResult.fn = "Delete"

\* C24: ClusterRole Delete returns nil when the object is deleted and when the
\* client reports it absent, however often Delete is repeated; any other
\* failure of the client returns an error that wraps it.
C24_DeleteIdempotent ==
    DeleteReturned =>
        /\ LastCall.outcome \in {"ok", "notfound"} => crResult.err = NoErr
        /\ LastCall.outcome = "ok" => apiRoles = {}
        /\ LastCall.outcome \notin {"ok", "notfound"} =>
              /\ crResult.err.kind = "Errorf"
              /\ crResult.err.cause = [kind |-> "Other"]
              /\ crResult.err.msg[2] = r.clusterrole.name

C24_Witness ==
    /\ DeleteReturned
    /\ crResult.before = {}
    /\ LastCall.outcome = "notfound"
    /\ crResult.err = NoErr

\* C25: a step of ClusterRole CreateOrPatch leaves the caller's desired
\* ClusterRole (name, namespace, labels, annotations, rules) as it was, whether
\* the call succeeds, requeues or fails.
C25_DesiredUnchanged ==
    [][crResult'.fn = "CreateOrPatch" => r'.clusterrole = r.clusterrole]_vars

C25_Witness ==
    /\ Succeeded
    /\ LastCall = Call("Patch", "ok")
    /\ r.clusterrole.labels # EmptyMap
    /\ \E old \in crResult.before : old.labels # r.clusterrole.labels


(***************************************************************************)
(* Observed-generation fencing: an owner kept by its controller            *)
(***************************************************************************)
\* Owners as the API server and the owner's controller leave them: the
\* generation is set, and status.observedGeneration is absent (never
\* reconciled) or a generation the controller has seen, so not ahead of it.
ReconciledOwnerDocs ==
    {d \in OwnerDocs :
        /\ d.generation.kind = "int"
        /\ \/ d.observedGeneration.kind = "absent"
           \/ /\ d.observedGeneration.kind = "int"
              /\ d.observedGeneration.val <= d.generation.val}

InitFence ==
    /\ obj \in ChildObjects
    /\ cluster \in {{d} : d \in ReconciledOwnerDocs}
    /\ verdict = NoVerdict
    /\ stored = IdleStored
    /\ mem = IdleMem
    /\ last = IdleLast
    /\ hook = IdleHook
    /\ r = IdleR
    /\ h = IdleH
    /\ apiRoles = IdleApiRoles
    /\ crResult = IdleCrResult

SpecFence == InitFence /\ [][NextReady]_vars

\* The kinds of step of an interleaving.
SpecChangeStep ==
    \E d \in cluster, e \in cluster' :
        /\ d.generation.kind = "int"
        /\ e.generation = IntField(d.generation.val + 1)
ReconcileStep ==
    /\ cluster' # cluster
    /\ \E d \in cluster, e \in cluster' :
        /\ e.generation = d.generation
        /\ e.observedGeneration = e.generation
CallStep == verdict'.called /\ cluster' = cluster

\* The owner has a spec change its controller has not reconciled.
Unreconciled == \E d \in cluster : ~GenerationObserved(d)

\* C26: in every interleaving of owner spec changes, owner reconciles and
\* calls of IsOwnerServiceReady: a spec change leaves the owner unreconciled
\* and only a reconcile ends that; a call that fetches the owner while it is
\* unreconciled returns (false, nil), stale Ready=True or not; and a call that
\* returns (true, nil) for a fetched owner saw Ready=True and
\* observedGeneration equal to generation.
C26_StaleReadyIsFenced ==
    [][/\ SpecChangeStep => Unreconciled'
       /\ (Unreconciled /\ ~Unreconciled') => ReconcileStep
       /\ (CallStep /\ Unreconciled /\ OwnerFetched') => ReturnsFalseNil'
       /\ (CallStep /\ OwnerFetched' /\ ReturnsTrueNil') =>
             /\ HasReadyTrueCondition(TheOwner')
             /\ GenerationObserved(TheOwner')]_vars

C26_Witness ==
    /\ OwnerFetched
    /\ HasReadyTrueCondition(TheOwner)
    /\ TheOwner.generation = IntField(2)
    /\ TheOwner.observedGeneration = IntField(1)
    /\ ReturnsFalseNil


(***************************************************************************)
(* Owner references: racing calls and retries                              *)
(***************************************************************************)
OwnerOfUID(uid) == CHOOSE o \in Owners : o.uid = uid

\* Worker w holds a snapshot it has made no call on, and worker v's last
\* call started from a snapshot with the same list, appended its owner's
\* reference and patched it into the store, which nothing has changed since.
SameSnapshotPatchedBy(v, w) ==
    /\ ~last[w].called
    /\ last[v].called
    /\ last[v].patched
    /\ last[v].err = "nil"
    /\ stored = {mem[v]}
    /\ LET refs == mem[v].ownerReferences
       IN  /\ Len(refs) = Len(mem[w].ownerReferences) + 1
           /\ SubSeq(refs, 1, Len(refs) - 1) = mem[w].ownerReferences
           /\ refs[Len(refs)].uid = last[v].owner

\* C27: two EnsureOwnerRef calls with different owners race on the same stored
\* target, each from the same earlier snapshot: when the second one returns,
\* the stored target has both owners in its owner-reference list, or one of
\* the two calls returned a conflict error.
C27_NoOwnerRefLost ==
    [][\A v \in Workers, w \in Workers :
        (/\ v # w
         /\ SameSnapshotPatchedBy(v, w)
         /\ CallReturns(w)
         /\ last'[w].err \in {"nil", "conflict"}
         /\ CalledOwner(w).name # OwnerOfUID(last[v].owner).name)
        => \/ "conflict" \in {last[v].err, last'[w].err}
           \/ \A t \in stored' :
                /\ CheckOwnerRefExist(last[v].owner, t.ownerReferences)
                /\ CheckOwnerRefExist(last'[w].owner, t.ownerReferences)]_vars

\* Only worker w has called EnsureOwnerRef so far.
OnlyCaller(w) == \A v \in Workers \ {w} : last[v].n = 0

\* C28: in a sequence of EnsureOwnerRef calls on one in-memory target, a
\* retry after a failed call included, a call that returns nil while the
\* target is in the store leaves the owner's UID in the stored target's
\* owner-reference list.
C28_NilMeansPersisted ==
    [][\A w \in Workers :
        (/\ OnlyCaller(w)
         /\ CallReturnsNil(w)
         /\ stored' # {})
        => \A t \in stored' :
              CheckOwnerRefExist(last'[w].owner, t.ownerReferences)]_vars

====
